---- MODULE Spec2Model ----
(***************************************************************************)
(* Celestia bridge exporter (celbridge_export.go).                         *)
(*                                                                         *)
(* One process: package initialisation registers two gauges, main parses  *)
(* the flags, registers the /metrics handler, starts the poller goroutine *)
(* and serves HTTP.  The poller fetches the auth token once and then      *)
(* loops: updateMetrics, sleep 5 s.                                        *)
(*                                                                         *)
(* Text is a sequence of one-character strings, so that strconv.Atoi and  *)
(* strings.TrimSpace are computed character by character.                  *)
(*                                                                         *)
(* Two specifications:                                                     *)
(*   Spec      the process from its start, as main is written;            *)
(*   PollSpec  the poller goroutine, the listener and a scraper, from the *)
(*             state in which main reaches its go statement (line 48).    *)
(***************************************************************************)
EXTENDS Integers, Sequences, FiniteSets, TLC

VARIABLES
    \* ---- main goroutine and process --------------------------------
    mainpc,         \* position of main
    exited,         \* the process has ended
    exitCode,       \* its exit status, once exited
    exitCause,      \* what ended it
    registry,       \* metric names registered with the default registry
    mux,            \* patterns registered with http.DefaultServeMux
    listenPort, endpoint, p2pNetwork,   \* the parsed flags
    \* ---- the two gauges --------------------------------------------
    localHeight, networkHeight,
    \* ---- poller goroutine ------------------------------------------
    pollpc,         \* position of the poller
    authToken,      \* line 50
    local, network, \* getHeights' locals (lines 73, 74)
    err,            \* getHeights' third result (line 62)
    inflight,       \* the requests client.Do is waiting on
    \* ---- one scraping client ---------------------------------------
    scrapepc, seenLocal, seenNetwork, seenStatus,
    \* ---- history (not program state) -------------------------------
    iter,           \* iterations of the loop started so far
    calls,          \* methods getHeight was called with, this iteration
    sets,           \* gauges Set so far, this iteration
    resLocal, resNetwork,     \* the iteration's call: pending, ok, or failed (a log line)
    saidLocal, saidNetwork,   \* the h whose decimal string the iteration's reply gave
    prevLocal, prevNetwork,   \* the gauges when the iteration began
    goodLocal, goodNetwork,   \* height of the latest call that succeeded
    stampLocal, stampNetwork, \* iteration whose Set wrote the gauge
    heldLocal, heldNetwork,   \* every value the gauge has held
    seenStampLocal, seenStampNetwork, \* stamps of what the scrape read
    authRuns,       \* invocations of the credential tool
    toolRun,        \* what the credential tool did
    sentAuth,       \* Authorization headers of all requests sent
    \* ---- getHeight called on its own (GetHeightSpec) ----------------
    fnpc,           \* "idle", "called" or "returned"
    arg,            \* the call's arguments and the reply client.Do meets
    got             \* what the call returned

mainVars   == <<mainpc, exited, exitCode, exitCause, registry, mux,
                listenPort, endpoint, p2pNetwork>>
gaugeVars  == <<localHeight, networkHeight>>
pollVars   == <<pollpc, authToken, local, network, err, inflight>>
scrapeVars == <<scrapepc, seenLocal, seenNetwork, seenStatus>>
iterHist   == <<iter, calls, sets, resLocal, resNetwork, saidLocal, saidNetwork,
                prevLocal, prevNetwork>>
gaugeHist  == <<goodLocal, goodNetwork, stampLocal, stampNetwork,
                heldLocal, heldNetwork>>
scrapeHist == <<seenStampLocal, seenStampNetwork>>
authHist   == <<authRuns, toolRun, sentAuth>>
fnVars     == <<fnpc, arg, got>>
vars == <<mainVars, gaugeVars, pollVars, scrapeVars,
          iterHist, gaugeHist, scrapeHist, authHist, fnVars>>

----------------------------------------------------------------------------
(* Bounds of the model *)

\* iterations of the poller loop that are explored
MaxIter == 2

\* largest height h for which the decimal string of h is looked for
MaxHeight == 105

----------------------------------------------------------------------------
(* Program constants *)

StatusOK == 200
RequestId == 1
FatalExit == 1      \* log.Fatal: os.Exit(1)
PanicExit == 2      \* an unrecovered panic ends a Go program with status 2

LocalHead   == "header.LocalHead"
NetworkHead == "header.NetworkHead"
MetricsPath == "/metrics"
LocalName   == "bridge_local_height"
NetworkName == "bridge_network_height"

None == "none"
Nil  == "nil"

----------------------------------------------------------------------------
(* Text: strconv and strings *)

Digits == {"0", "1", "2", "3", "4", "5", "6", "7", "8", "9"}

DigitVal(c) ==
    CASE c = "0" -> 0 [] c = "1" -> 1 [] c = "2" -> 2 [] c = "3" -> 3
      [] c = "4" -> 4 [] c = "5" -> 5 [] c = "6" -> 6 [] c = "7" -> 7
      [] c = "8" -> 8 [] c = "9" -> 9

DigitChar(d) ==
    CASE d = 0 -> "0" [] d = 1 -> "1" [] d = 2 -> "2" [] d = 3 -> "3"
      [] d = 4 -> "4" [] d = 5 -> "5" [] d = 6 -> "6" [] d = 7 -> "7"
      [] d = 8 -> "8" [] d = 9 -> "9"

\* the loop of strconv.Atoi: n = n*10 + int(ch), left to right
RECURSIVE DigitsValue(_, _)
DigitsValue(s, n) ==
    IF s = <<>> THEN n ELSE DigitsValue(Tail(s), n * 10 + DigitVal(Head(s)))

\* strconv.Atoi(s): an optional sign, then one or more decimal digits.  Every
\* text of the model is shorter than the 10 characters at which a 32-bit int
\* can overflow, so the range error of the slow path does not arise.
Atoi(s) ==
    LET signed == Len(s) > 0 /\ Head(s) \in {"-", "+"}
        body   == IF signed THEN Tail(s) ELSE s
    IN  IF Len(s) = 0 \/ Len(body) = 0
          \/ \E i \in 1..Len(body) : body[i] \notin Digits
        THEN [n |-> 0, err |-> "syntax"]
        ELSE [n   |-> IF Head(s) = "-" THEN 0 - DigitsValue(body, 0)
                      ELSE DigitsValue(body, 0),
              err |-> Nil]

\* The decimal string of h >= 0 (as strconv.Itoa writes it).  The program
\* never formats a height: this states what a reply's height text says.
RECURSIVE Itoa(_)
Itoa(h) ==
    IF h < 10 THEN <<DigitChar(h)>>
    ELSE Itoa(h \div 10) \o <<DigitChar(h % 10)>>

Space == {" ", "\t", "\n", "\r"}

RECURSIVE TrimLeft(_)
TrimLeft(s) ==
    IF s # <<>> /\ Head(s) \in Space THEN TrimLeft(Tail(s)) ELSE s

RECURSIVE TrimRight(_)
TrimRight(s) ==
    IF s # <<>> /\ s[Len(s)] \in Space
    THEN TrimRight(SubSeq(s, 1, Len(s) - 1)) ELSE s

\* strings.TrimSpace
TrimSpace(s) == TrimRight(TrimLeft(s))

\* float64(n): exact for |n| <= 2^53; every height of the model is below 2^31
Float64(n) == n

----------------------------------------------------------------------------
(* getHeight (lines 79-144) *)

\* http.NewRequest fails when the endpoint is no URL (line 88)
BadEndpoint == "://localhost:26658"
DefaultEndpoint == "http://localhost:26658"
ParsesAsURL(e) == e # BadEndpoint

\* fmt.Sprintf("Bearer %s", authToken) (line 94)
Bearer(token) == <<"B", "e", "a", "r", "e", "r", " ">> \o token

\* the request of lines 80-94
Request(token, method, url) ==
    [verb |-> "POST", url |-> url,
     jsonrpc |-> "2.0", id |-> RequestId, method |-> method, params |-> <<>>,
     contentType |-> "application/json", authorization |-> Bearer(token)]

\* What client.Do and the reading of the body can come to.  do: whether
\* client.Do returned a response; read: whether ReadAll did; json: whether the
\* body unmarshals into a map; result, header: an object, absent, or another JSON
\* value; height: a string (text), absent, or another JSON value.
Reply(do, status, read, json, result, header, height, text) ==
    [do |-> do, status |-> status, read |-> read, json |-> json,
     result |-> result, header |-> header, height |-> height, text |-> text]

HeightReply(text) ==
    Reply("ok", StatusOK, "ok", "ok", "object", "object", "string", text)

HeightTexts ==
    { <<>>, <<"x">>, <<"1", "0", "x">>, <<"1", ".", "5">>, <<"-">>,
      <<"0">>, <<"1", "0", "0">>, <<"+", "1", "0", "0">>, <<"0", "1", "0", "0">>,
      <<"1", "0", "5">> }

Replies ==
    { Reply("error", 0, "ok", "ok", "object", "object", "string", <<"1", "0", "0">>),
      Reply("ok", 500, "ok", "ok", "object", "object", "string", <<"1", "0", "0">>),
      Reply("ok", 401, "ok", "ok", "absent", "absent", "absent", <<>>),
      Reply("ok", StatusOK, "error", "ok", "object", "object", "string", <<"1", "0", "0">>),
      Reply("ok", StatusOK, "ok", "error", "absent", "absent", "absent", <<>>),
      Reply("ok", StatusOK, "ok", "ok", "absent", "absent", "absent", <<>>),
      Reply("ok", StatusOK, "ok", "ok", "other", "absent", "absent", <<>>),
      Reply("ok", StatusOK, "ok", "ok", "object", "absent", "absent", <<>>),
      Reply("ok", StatusOK, "ok", "ok", "object", "other", "absent", <<>>),
      Reply("ok", StatusOK, "ok", "ok", "object", "object", "absent", <<>>),
      Reply("ok", StatusOK, "ok", "ok", "object", "object", "other", <<>>) }
    \cup { HeightReply(t) : t \in HeightTexts }

Returns(n, msg) == [ret |-> n, log |-> msg]

\* lines 88-92: the request cannot be built
getHeightNoRequest == Returns(0, "Error creating request")

\* variant: the status of the response is not looked at
getHeightReplyAnyStatus(r) ==
    IF r.do # "ok" THEN Returns(0, "Error executing request")
    ELSE IF r.read # "ok" THEN Returns(0, "Error reading response body")
    ELSE IF r.json # "ok" THEN Returns(0, "Error unmarshaling response")
    ELSE IF r.result # "object" THEN Returns(0, "Error: result is not a map")
    ELSE IF r.header # "object" THEN Returns(0, "Error: header is not a map")
    ELSE IF r.height # "string" THEN Returns(0, "Error: height is not a string")
    ELSE IF Atoi(r.text).err # Nil THEN Returns(0, "Error converting height to int")
    ELSE Returns(Atoi(r.text).n, None)

\* lines 96-143: from client.Do to the return, for the reply r
getHeightReply(r) ==
    IF r.do # "ok" THEN Returns(0, "Error executing request")
    ELSE IF r.status # StatusOK THEN Returns(0, "Non-OK HTTP status")
    ELSE IF r.read # "ok" THEN Returns(0, "Error reading response body")
    ELSE IF r.json # "ok" THEN Returns(0, "Error unmarshaling response")
    ELSE IF r.result # "object" THEN Returns(0, "Error: result is not a map")
    ELSE IF r.header # "object" THEN Returns(0, "Error: header is not a map")
    ELSE IF r.height # "string" THEN Returns(0, "Error: height is not a string")
    ELSE IF Atoi(r.text).err # Nil THEN Returns(0, "Error converting height to int")
    ELSE Returns(Atoi(r.text).n, None)

\* getHeight(client, authToken, method, endpoint) when client.Do meets reply
getHeight(token, method, url, reply) ==
    IF ParsesAsURL(url) THEN getHeightReply(reply) ELSE getHeightNoRequest

\* arguments of a call of getHeight, with the reply it is to meet
Call(token, method, url, reply) ==
    [token |-> token, method |-> method, url |-> url, reply |-> reply]

NoCall == Call(<<>>, LocalHead, DefaultEndpoint, HeightReply(<<"0">>))

----------------------------------------------------------------------------
(* getAuthToken (lines 146-154) *)

\* A run of the credential tool: whether exec reports an error (the tool is
\* missing or exits non-zero) and what it wrote, in order, to which stream.
Write(fd, data) == [fd |-> fd, data |-> data]

ToolRuns ==
    { [fail |-> TRUE,  writes |-> <<Write("stdout", <<"t", "\n">>)>>],
      [fail |-> FALSE, writes |-> <<>>],
      [fail |-> FALSE, writes |-> <<Write("stdout", <<" ", "t", "\n">>)>>],
      [fail |-> FALSE, writes |-> <<Write("stderr", <<"W", "\n">>),
                                    Write("stdout", <<"t", "\n">>)>>] }

\* CombinedOutput: stdout and stderr share one buffer
RECURSIVE CombinedOutput(_)
CombinedOutput(writes) ==
    IF writes = <<>> THEN <<>>
    ELSE Head(writes).data \o CombinedOutput(Tail(writes))

\* variant: the error of exec is ignored and the output is used all the same
getAuthTokenIgnoresErr(run) == TrimSpace(CombinedOutput(run.writes))

getAuthToken(run) ==
    IF run.fail THEN <<>> ELSE TrimSpace(CombinedOutput(run.writes))

NoRun == [fail |-> FALSE, writes |-> <<>>]

----------------------------------------------------------------------------
(* Flags (lines 38-41) *)

DefaultPort    == "8380"
DefaultNetwork == "blockspacerace"

Ports     == {DefaultPort, "9100", "80"}
Endpoints == {DefaultEndpoint, BadEndpoint, "http://bridge:26658"}
Networks  == {DefaultNetwork, "mocha", "arabica", "celestia"}

----------------------------------------------------------------------------
(* Initial states *)

\* what holds when the process starts and when main reaches line 48 alike
InitCommon ==
    /\ exited = FALSE /\ exitCode = 0 /\ exitCause = None
    /\ localHeight = 0 /\ networkHeight = 0
    /\ pollpc = "notStarted" /\ authToken = <<>>
    /\ local = 0 /\ network = 0 /\ err = Nil /\ inflight = {}
    /\ scrapepc = "idle" /\ seenLocal = {} /\ seenNetwork = {} /\ seenStatus = 0
    /\ iter = 0 /\ calls = <<>> /\ sets = <<>>
    /\ resLocal = "pending" /\ resNetwork = "pending"
    /\ saidLocal = {} /\ saidNetwork = {}
    /\ prevLocal = 0 /\ prevNetwork = 0
    /\ goodLocal = 0 /\ goodNetwork = 0
    /\ stampLocal = 0 /\ stampNetwork = 0
    /\ heldLocal = {0} /\ heldNetwork = {0}
    /\ seenStampLocal = 0 /\ seenStampNetwork = 0
    /\ authRuns = 0 /\ toolRun = NoRun /\ sentAuth = {}

\* getHeight is not called on its own
FnIdle == fnpc = "idle" /\ arg = NoCall /\ got = Returns(0, None)

\* the process starts: the gauges exist (lines 20-30), nothing is registered,
\* the flags hold their defaults
Init ==
    /\ InitCommon /\ FnIdle
    /\ mainpc = "init"
    /\ registry = {} /\ mux = {}
    /\ listenPort = DefaultPort /\ endpoint = DefaultEndpoint
    /\ p2pNetwork = DefaultNetwork

\* main at its go statement (line 48): both gauges and one /metrics handler
\* registered, the flags parsed
PollInit ==
    /\ InitCommon /\ FnIdle
    /\ mainpc = "go"
    /\ registry = {LocalName, NetworkName} /\ mux = {MetricsPath}
    /\ listenPort = DefaultPort
    /\ endpoint \in {DefaultEndpoint, BadEndpoint}
    /\ p2pNetwork = DefaultNetwork

----------------------------------------------------------------------------
(* Start of the process (lines 32-46) *)

Panic(cause) ==
    /\ mainpc' = "panicked"
    /\ exited' = TRUE /\ exitCode' = PanicExit /\ exitCause' = cause

\* init (lines 32-35): MustRegister panics on a name already registered
PackageInit ==
    /\ mainpc = "init" /\ ~exited
    /\ IF LocalName \in registry \/ NetworkName \in registry \cup {LocalName}
       THEN Panic("MustRegister") /\ UNCHANGED registry
       ELSE /\ registry' = registry \cup {LocalName, NetworkName}
            /\ mainpc' = "flags"
            /\ UNCHANGED <<exited, exitCode, exitCause>>
    /\ UNCHANGED <<mux, listenPort, endpoint, p2pNetwork>>
    /\ UNCHANGED <<gaugeVars, pollVars, scrapeVars,
                   iterHist, gaugeHist, scrapeHist, authHist>>
    /\ UNCHANGED fnVars

\* flag.Parse (line 41)
FlagParse ==
    /\ mainpc = "flags" /\ ~exited
    /\ \E p \in Ports, e \in Endpoints, n \in Networks :
         /\ listenPort' = p /\ endpoint' = e /\ p2pNetwork' = n
    /\ mainpc' = "handle"
    /\ UNCHANGED <<exited, exitCode, exitCause, registry, mux>>
    /\ UNCHANGED <<gaugeVars, pollVars, scrapeVars,
                   iterHist, gaugeHist, scrapeHist, authHist>>
    /\ UNCHANGED fnVars

\* ServeMux.Handle on http.DefaultServeMux: a pattern registered twice panics
\* ("http: multiple registrations for /metrics")
MuxHandle(pattern, next) ==
    /\ IF pattern \in mux
       THEN Panic("multiple registrations") /\ UNCHANGED mux
       ELSE /\ mux' = mux \cup {pattern}
            /\ mainpc' = next
            /\ UNCHANGED <<exited, exitCode, exitCause>>
    /\ UNCHANGED <<registry, listenPort, endpoint, p2pNetwork>>
    /\ UNCHANGED <<gaugeVars, pollVars, scrapeVars,
                   iterHist, gaugeHist, scrapeHist, authHist>>
    /\ UNCHANGED fnVars

\* http.Handle("/metrics", promhttp.Handler()) (line 43)
Handle ==
    /\ mainpc = "handle" /\ ~exited
    /\ MuxHandle(MetricsPath, "handleFunc")

\* http.HandleFunc("/metrics", ...) (lines 44-46)
HandleFunc ==
    /\ mainpc = "handleFunc" /\ ~exited
    /\ MuxHandle(MetricsPath, "go")

StartNext == PackageInit \/ FlagParse \/ Handle \/ HandleFunc

\* the process as main is written
Spec == Init /\ [][StartNext]_vars

----------------------------------------------------------------------------
(* main from its go statement (lines 48-58) *)

\* an iteration of the loop begins (history only)
BeginIteration ==
    /\ iter' = iter + 1
    /\ calls' = <<>> /\ sets' = <<>>
    /\ resLocal' = "pending" /\ resNetwork' = "pending"
    /\ saidLocal' = {} /\ saidNetwork' = {}
    /\ prevLocal' = localHeight /\ prevNetwork' = networkHeight

\* go func() { ... }() (line 48): the poller starts, main goes on
GoPoller ==
    /\ mainpc = "go" /\ ~exited
    /\ mainpc' = "listen"
    /\ pollpc' = "auth"
    /\ UNCHANGED <<exited, exitCode, exitCause, registry, mux,
                   listenPort, endpoint, p2pNetwork>>
    /\ UNCHANGED <<authToken, local, network, err, inflight>>
    /\ UNCHANGED <<gaugeVars, scrapeVars,
                   iterHist, gaugeHist, scrapeHist, authHist>>
    /\ UNCHANGED fnVars

\* http.ListenAndServe (line 58) binds the port and serves
ListenOk ==
    /\ mainpc = "listen" /\ ~exited
    /\ mainpc' = "serving"
    /\ UNCHANGED <<exited, exitCode, exitCause, registry, mux,
                   listenPort, endpoint, p2pNetwork>>
    /\ UNCHANGED <<gaugeVars, pollVars, scrapeVars,
                   iterHist, gaugeHist, scrapeHist, authHist>>
    /\ UNCHANGED fnVars

\* http.ListenAndServe returns an error: log.Fatal ends the process
ListenFail ==
    /\ mainpc = "listen" /\ ~exited
    /\ mainpc' = "fatal"
    /\ exited' = TRUE /\ exitCode' = FatalExit /\ exitCause' = "listen"
    /\ UNCHANGED <<registry, mux, listenPort, endpoint, p2pNetwork>>
    /\ UNCHANGED <<gaugeVars, pollVars, scrapeVars,
                   iterHist, gaugeHist, scrapeHist, authHist>>
    /\ UNCHANGED fnVars

----------------------------------------------------------------------------
(* The poller goroutine (lines 48-55) and updateMetrics (lines 61-77) *)

\* authToken := getAuthToken(*p2pNetwork) (line 50); the loop is entered
FetchToken ==
    /\ pollpc = "auth" /\ ~exited
    /\ \E run \in ToolRuns :
         /\ authToken' = getAuthToken(run)
         /\ toolRun' = run
    /\ authRuns' = authRuns + 1
    /\ pollpc' = "callLocal"
    /\ BeginIteration
    /\ UNCHANGED <<local, network, err, inflight, sentAuth>>
    /\ UNCHANGED <<mainVars, gaugeVars, scrapeVars, gaugeHist, scrapeHist>>
    /\ UNCHANGED fnVars

\* variant: both requests are sent at once
CallLocalBothAtOnce ==
    /\ pollpc = "callLocal" /\ ~exited
    /\ calls' = Append(calls, LocalHead)
    /\ inflight' = {Request(authToken, LocalHead, endpoint),
                    Request(authToken, NetworkHead, endpoint)}
    /\ sentAuth' = sentAuth \cup {Bearer(authToken)}
    /\ pollpc' = "waitLocal"
    /\ UNCHANGED <<authToken, local, network, err>>
    /\ UNCHANGED <<iter, sets, resLocal, resNetwork, saidLocal, saidNetwork,
                   prevLocal, prevNetwork, authRuns, toolRun>>
    /\ UNCHANGED <<mainVars, gaugeVars, scrapeVars, gaugeHist, scrapeHist>>
    /\ UNCHANGED fnVars

\* getHeight(client, authToken, "header.LocalHead", endpoint) is called
\* (line 73) and runs to client.Do (line 96), or returns at line 91
CallLocal ==
    /\ pollpc = "callLocal" /\ ~exited
    /\ calls' = Append(calls, LocalHead)
    /\ IF ParsesAsURL(endpoint)
       THEN /\ inflight' = inflight \cup {Request(authToken, LocalHead, endpoint)}
            /\ sentAuth' = sentAuth \cup {Bearer(authToken)}
            /\ pollpc' = "waitLocal"
            /\ UNCHANGED <<local, resLocal>>
       ELSE /\ local' = getHeightNoRequest.ret
            /\ resLocal' = "failed"
            /\ pollpc' = "callNetwork"
            /\ UNCHANGED <<inflight, sentAuth>>
    /\ UNCHANGED <<authToken, network, err>>
    /\ UNCHANGED <<iter, sets, resNetwork, saidLocal, saidNetwork,
                   prevLocal, prevNetwork, authRuns, toolRun>>
    /\ UNCHANGED <<mainVars, gaugeVars, scrapeVars, gaugeHist, scrapeHist>>
    /\ UNCHANGED fnVars

\* The heights h of 0..MaxHeight whose decimal string is the reply's
\* result.header.height: {h} for an HTTP 200 reply that carries it, else {}.
SaidHeight(r) ==
    IF /\ r.do = "ok" /\ r.status = StatusOK /\ r.read = "ok" /\ r.json = "ok"
       /\ r.result = "object" /\ r.header = "object" /\ r.height = "string"
    THEN {h \in 0..MaxHeight : Itoa(h) = r.text}
    ELSE {}

\* SaidHeight over the replies of the model, computed once
Said == [r \in Replies |-> SaidHeight(r)]

\* variant: the local gauge is set as soon as its call has returned
ReturnLocalSetsGauge ==
    /\ pollpc = "waitLocal" /\ ~exited
    /\ \E r \in Replies :
         LET out == getHeightReply(r) IN
         /\ local' = out.ret
         /\ localHeight' = Float64(out.ret)
         /\ resLocal' = IF out.log = None THEN "ok" ELSE "failed"
         /\ saidLocal' = Said[r]
         /\ goodLocal' = IF out.log = None THEN out.ret ELSE goodLocal
    /\ inflight' = {}
    /\ pollpc' = "callNetwork"
    /\ UNCHANGED <<authToken, network, err, networkHeight>>
    /\ UNCHANGED <<iter, calls, sets, resNetwork, saidNetwork,
                   prevLocal, prevNetwork>>
    /\ UNCHANGED <<goodNetwork, stampLocal, stampNetwork, heldLocal, heldNetwork>>
    /\ UNCHANGED <<mainVars, scrapeVars, scrapeHist, authHist>>
    /\ UNCHANGED fnVars

\* client.Do returns (line 96) and getHeight runs to its return
ReturnLocal ==
    /\ pollpc = "waitLocal" /\ ~exited
    /\ \E r \in Replies :
         LET out == getHeightReply(r) IN
         /\ local' = out.ret
         /\ resLocal' = IF out.log = None THEN "ok" ELSE "failed"
         /\ saidLocal' = Said[r]
         /\ goodLocal' = IF out.log = None THEN out.ret ELSE goodLocal
    /\ inflight' = {}
    /\ pollpc' = "callNetwork"
    /\ UNCHANGED <<authToken, network, err>>
    /\ UNCHANGED <<iter, calls, sets, resNetwork, saidNetwork,
                   prevLocal, prevNetwork>>
    /\ UNCHANGED <<goodNetwork, stampLocal, stampNetwork, heldLocal, heldNetwork>>
    /\ UNCHANGED <<mainVars, gaugeVars, scrapeVars, scrapeHist, authHist>>
    /\ UNCHANGED fnVars

\* getHeight(client, authToken, "header.NetworkHead", endpoint) is called
\* (line 74); when it returns at line 91, getHeights returns (line 76)
CallNetwork ==
    /\ pollpc = "callNetwork" /\ ~exited
    /\ calls' = Append(calls, NetworkHead)
    /\ IF ParsesAsURL(endpoint)
       THEN /\ inflight' = inflight \cup {Request(authToken, NetworkHead, endpoint)}
            /\ sentAuth' = sentAuth \cup {Bearer(authToken)}
            /\ pollpc' = "waitNetwork"
            /\ UNCHANGED <<network, err, resNetwork>>
       ELSE /\ network' = getHeightNoRequest.ret
            /\ err' = Nil
            /\ resNetwork' = "failed"
            /\ pollpc' = "update"
            /\ UNCHANGED <<inflight, sentAuth>>
    /\ UNCHANGED <<authToken, local>>
    /\ UNCHANGED <<iter, sets, resLocal, saidLocal, saidNetwork,
                   prevLocal, prevNetwork, authRuns, toolRun>>
    /\ UNCHANGED <<mainVars, gaugeVars, scrapeVars, gaugeHist, scrapeHist>>
    /\ UNCHANGED fnVars

\* variant: getHeights reports an error when one of its calls failed
ReturnNetworkReportsError ==
    /\ pollpc = "waitNetwork" /\ ~exited
    /\ \E r \in Replies :
         LET out == getHeightReply(r) IN
         /\ network' = out.ret
         /\ resNetwork' = IF out.log = None THEN "ok" ELSE "failed"
         /\ saidNetwork' = Said[r]
         /\ goodNetwork' = IF out.log = None THEN out.ret ELSE goodNetwork
         /\ err' = IF out.log = None /\ resLocal = "ok" THEN Nil ELSE "call failed"
    /\ inflight' = {}
    /\ pollpc' = "update"
    /\ UNCHANGED <<authToken, local>>
    /\ UNCHANGED <<iter, calls, sets, resLocal, saidLocal,
                   prevLocal, prevNetwork>>
    /\ UNCHANGED <<goodLocal, stampLocal, stampNetwork, heldLocal, heldNetwork>>
    /\ UNCHANGED <<mainVars, gaugeVars, scrapeVars, scrapeHist, authHist>>
    /\ UNCHANGED fnVars

\* client.Do returns, getHeight returns, getHeights returns
\* local, network, nil (line 76)
ReturnNetwork ==
    /\ pollpc = "waitNetwork" /\ ~exited
    /\ \E r \in Replies :
         LET out == getHeightReply(r) IN
         /\ network' = out.ret
         /\ resNetwork' = IF out.log = None THEN "ok" ELSE "failed"
         /\ saidNetwork' = Said[r]
         /\ goodNetwork' = IF out.log = None THEN out.ret ELSE goodNetwork
    /\ err' = Nil
    /\ inflight' = {}
    /\ pollpc' = "update"
    /\ UNCHANGED <<authToken, local>>
    /\ UNCHANGED <<iter, calls, sets, resLocal, saidLocal,
                   prevLocal, prevNetwork>>
    /\ UNCHANGED <<goodLocal, stampLocal, stampNetwork, heldLocal, heldNetwork>>
    /\ UNCHANGED <<mainVars, gaugeVars, scrapeVars, scrapeHist, authHist>>
    /\ UNCHANGED fnVars

\* variant: a returned 0 is taken for a failure and neither gauge is set
SetLocalSkipsPairOnZero ==
    /\ pollpc = "update" /\ ~exited
    /\ IF err # Nil \/ local = 0 \/ network = 0
       THEN /\ pollpc' = "sleep"
            /\ UNCHANGED <<localHeight, sets, stampLocal, heldLocal>>
       ELSE /\ localHeight' = Float64(local)
            /\ sets' = Append(sets, LocalName)
            /\ stampLocal' = iter
            /\ heldLocal' = heldLocal \cup {Float64(local)}
            /\ pollpc' = "setNetwork"
    /\ UNCHANGED <<networkHeight, authToken, local, network, err, inflight>>
    /\ UNCHANGED <<iter, calls, resLocal, resNetwork, saidLocal, saidNetwork,
                   prevLocal, prevNetwork>>
    /\ UNCHANGED <<goodLocal, goodNetwork, stampNetwork, heldNetwork>>
    /\ UNCHANGED <<mainVars, scrapeVars, scrapeHist, authHist>>
    /\ UNCHANGED fnVars

\* updateMetrics after getHeights (lines 63-68): return on an error, else
\* localHeight.Set(float64(local))
SetLocal ==
    /\ pollpc = "update" /\ ~exited
    /\ IF err # Nil
       THEN /\ pollpc' = "sleep"
            /\ UNCHANGED <<localHeight, sets, stampLocal, heldLocal>>
       ELSE /\ localHeight' = Float64(local)
            /\ sets' = Append(sets, LocalName)
            /\ stampLocal' = iter
            /\ heldLocal' = heldLocal \cup {Float64(local)}
            /\ pollpc' = "setNetwork"
    /\ UNCHANGED <<networkHeight, authToken, local, network, err, inflight>>
    /\ UNCHANGED <<iter, calls, resLocal, resNetwork, saidLocal, saidNetwork,
                   prevLocal, prevNetwork>>
    /\ UNCHANGED <<goodLocal, goodNetwork, stampNetwork, heldNetwork>>
    /\ UNCHANGED <<mainVars, scrapeVars, scrapeHist, authHist>>
    /\ UNCHANGED fnVars

\* variant: a height of 0 is taken for a failure and not written
SetNetworkSkipsZero ==
    /\ pollpc = "setNetwork" /\ ~exited
    /\ IF network = 0
       THEN UNCHANGED <<networkHeight, stampNetwork, heldNetwork>>
       ELSE /\ networkHeight' = Float64(network)
            /\ stampNetwork' = iter
            /\ heldNetwork' = heldNetwork \cup {Float64(network)}
    /\ sets' = Append(sets, NetworkName)
    /\ pollpc' = "sleep"
    /\ UNCHANGED <<localHeight, authToken, local, network, err, inflight>>
    /\ UNCHANGED <<iter, calls, resLocal, resNetwork, saidLocal, saidNetwork,
                   prevLocal, prevNetwork>>
    /\ UNCHANGED <<goodLocal, goodNetwork, stampLocal, heldLocal>>
    /\ UNCHANGED <<mainVars, scrapeVars, scrapeHist, authHist>>
    /\ UNCHANGED fnVars

\* variant: the network gauge is set from local
SetNetworkFromLocal ==
    /\ pollpc = "setNetwork" /\ ~exited
    /\ networkHeight' = Float64(local)
    /\ sets' = Append(sets, NetworkName)
    /\ stampNetwork' = iter
    /\ heldNetwork' = heldNetwork \cup {Float64(local)}
    /\ pollpc' = "sleep"
    /\ UNCHANGED <<localHeight, authToken, local, network, err, inflight>>
    /\ UNCHANGED <<iter, calls, resLocal, resNetwork, saidLocal, saidNetwork,
                   prevLocal, prevNetwork>>
    /\ UNCHANGED <<goodLocal, goodNetwork, stampLocal, heldLocal>>
    /\ UNCHANGED <<mainVars, scrapeVars, scrapeHist, authHist>>
    /\ UNCHANGED fnVars

\* networkHeight.Set(float64(network)) (line 69); updateMetrics returns
SetNetwork ==
    /\ pollpc = "setNetwork" /\ ~exited
    /\ networkHeight' = Float64(network)
    /\ sets' = Append(sets, NetworkName)
    /\ stampNetwork' = iter
    /\ heldNetwork' = heldNetwork \cup {Float64(network)}
    /\ pollpc' = "sleep"
    /\ UNCHANGED <<localHeight, authToken, local, network, err, inflight>>
    /\ UNCHANGED <<iter, calls, resLocal, resNetwork, saidLocal, saidNetwork,
                   prevLocal, prevNetwork>>
    /\ UNCHANGED <<goodLocal, goodNetwork, stampLocal, heldLocal>>
    /\ UNCHANGED <<mainVars, scrapeVars, scrapeHist, authHist>>
    /\ UNCHANGED fnVars

\* variant: after an iteration with a failed call the token is fetched again
SleepRefetch ==
    /\ pollpc = "sleep" /\ ~exited
    /\ iter < MaxIter
    /\ IF resLocal = "failed" \/ resNetwork = "failed"
       THEN pollpc' = "auth" /\ UNCHANGED iterHist
       ELSE pollpc' = "callLocal" /\ BeginIteration
    /\ UNCHANGED <<authToken, local, network, err, inflight>>
    /\ UNCHANGED <<mainVars, gaugeVars, scrapeVars, gaugeHist, scrapeHist, authHist>>
    /\ UNCHANGED fnVars

\* variant: the loop is left after an iteration with a failed call
SleepStopsOnFailure ==
    /\ pollpc = "sleep" /\ ~exited
    /\ iter < MaxIter
    /\ resLocal = "ok" /\ resNetwork = "ok"
    /\ pollpc' = "callLocal"
    /\ BeginIteration
    /\ UNCHANGED <<authToken, local, network, err, inflight>>
    /\ UNCHANGED <<mainVars, gaugeVars, scrapeVars, gaugeHist, scrapeHist, authHist>>
    /\ UNCHANGED fnVars

\* time.Sleep(5 * time.Second) ends (line 53); the loop goes round
Sleep ==
    /\ pollpc = "sleep" /\ ~exited
    /\ iter < MaxIter
    /\ pollpc' = "callLocal"
    /\ BeginIteration
    /\ UNCHANGED <<authToken, local, network, err, inflight>>
    /\ UNCHANGED <<mainVars, gaugeVars, scrapeVars, gaugeHist, scrapeHist, authHist>>
    /\ UNCHANGED fnVars

Poller ==
    \/ FetchToken \/ CallLocal \/ ReturnLocal \/ CallNetwork \/ ReturnNetwork
    \/ SetLocal \/ SetNetwork \/ Sleep

----------------------------------------------------------------------------
(* A client scraping GET /metrics (the handler of lines 43-46) *)

\* the request reaches the server; the handler starts gathering
ScrapeBegin ==
    /\ mainpc = "serving" /\ ~exited
    /\ scrapepc \in {"idle", "done"}
    /\ scrapepc' = IF MetricsPath \in mux THEN "gather" ELSE "done"
    /\ seenStatus' = IF MetricsPath \in mux THEN 0 ELSE 404
    /\ seenLocal' = {} /\ seenNetwork' = {}
    /\ seenStampLocal' = 0 /\ seenStampNetwork' = 0
    /\ UNCHANGED <<mainVars, gaugeVars, pollVars, iterHist, gaugeHist, authHist>>
    /\ UNCHANGED fnVars

\* variant: the handler renders the poller's working value, not the gauge
ScrapeLocalUnset ==
    /\ scrapepc = "gather" /\ ~exited
    /\ LocalName \in registry /\ seenLocal = {}
    /\ seenLocal' = {Float64(local)}
    /\ seenStampLocal' = stampLocal
    /\ UNCHANGED <<scrapepc, seenNetwork, seenStatus, seenStampNetwork>>
    /\ UNCHANGED <<mainVars, gaugeVars, pollVars, iterHist, gaugeHist, authHist>>
    /\ UNCHANGED fnVars

\* the registry collects bridge_local_height: one atomic read of the gauge
ScrapeLocal ==
    /\ scrapepc = "gather" /\ ~exited
    /\ LocalName \in registry /\ seenLocal = {}
    /\ seenLocal' = {localHeight}
    /\ seenStampLocal' = stampLocal
    /\ UNCHANGED <<scrapepc, seenNetwork, seenStatus, seenStampNetwork>>
    /\ UNCHANGED <<mainVars, gaugeVars, pollVars, iterHist, gaugeHist, authHist>>
    /\ UNCHANGED fnVars

\* the registry collects bridge_network_height
ScrapeNetwork ==
    /\ scrapepc = "gather" /\ ~exited
    /\ NetworkName \in registry /\ seenNetwork = {}
    /\ seenNetwork' = {networkHeight}
    /\ seenStampNetwork' = stampNetwork
    /\ UNCHANGED <<scrapepc, seenLocal, seenStatus, seenStampLocal>>
    /\ UNCHANGED <<mainVars, gaugeVars, pollVars, iterHist, gaugeHist, authHist>>
    /\ UNCHANGED fnVars

\* every registered gauge is collected: the handler answers 200
ScrapeRespond ==
    /\ scrapepc = "gather" /\ ~exited
    /\ LocalName \in registry => seenLocal # {}
    /\ NetworkName \in registry => seenNetwork # {}
    /\ scrapepc' = "done"
    /\ seenStatus' = StatusOK
    /\ UNCHANGED <<seenLocal, seenNetwork, scrapeHist>>
    /\ UNCHANGED <<mainVars, gaugeVars, pollVars, iterHist, gaugeHist, authHist>>
    /\ UNCHANGED fnVars

Scraper == ScrapeBegin \/ ScrapeLocal \/ ScrapeNetwork \/ ScrapeRespond

PollNext == GoPoller \/ ListenOk \/ ListenFail \/ Poller \/ Scraper

\* the poller, the listener and a scraper, from main's go statement
PollSpec == PollInit /\ [][PollNext]_vars

----------------------------------------------------------------------------
(* The poller under fair scheduling *)

LiveNext == GoPoller \/ ListenOk \/ ListenFail \/ Poller

\* The poller goroutine keeps being scheduled while it can take a step: the
\* credential tool ends, every client.Do returns, every sleep ends.  Nothing
\* is assumed of the listener.
LiveSpec == PollInit /\ [][LiveNext]_vars /\ WF_vars(Poller)

----------------------------------------------------------------------------
(* getHeight called on its own, for every argument and reply of the model *)

Tokens == {getAuthToken(run) : run \in ToolRuns}

GetHeightInit ==
    /\ InitCommon
    /\ mainpc = "go"
    /\ registry = {LocalName, NetworkName} /\ mux = {MetricsPath}
    /\ listenPort = DefaultPort /\ endpoint = DefaultEndpoint
    /\ p2pNetwork = DefaultNetwork
    /\ fnpc = "called"
    /\ arg \in {Call(t, m, e, r) : t \in Tokens, m \in {LocalHead, NetworkHead},
                                   e \in Endpoints, r \in Replies}
    /\ got = Returns(0, None)

\* the call runs to its return (lines 79-144)
GetHeightReturns ==
    /\ fnpc = "called"
    /\ got' = getHeight(arg.token, arg.method, arg.url, arg.reply)
    /\ fnpc' = "returned"
    /\ UNCHANGED arg
    /\ UNCHANGED <<mainVars, gaugeVars, pollVars, scrapeVars,
                   iterHist, gaugeHist, scrapeHist, authHist>>

GetHeightSpec == GetHeightInit /\ [][GetHeightReturns]_vars

----------------------------------------------------------------------------
(* Claims *)

Returned == pollpc = "sleep"    \* updateMetrics has returned (line 52 -> 53)
BothCalls == <<LocalHead, NetworkHead>>
InLoop == {"callLocal", "waitLocal", "callNetwork", "waitNetwork",
           "update", "setNetwork", "sleep"}

\* C1: when updateMetrics returns from an iteration in which the call of a
\* gauge failed, that gauge holds the value it held when the iteration began.
C1_FailedCallKeepsGauge ==
    Returned =>
        /\ resLocal = "failed" => localHeight = prevLocal
        /\ resNetwork = "failed" => networkHeight = prevNetwork

\* C2: when updateMetrics returns from an iteration in which the reply to a
\* gauge's call was HTTP 200 with result.header.height the decimal string of
\* h, that gauge reads h.
C2_WellFormedHeightIsRead ==
    Returned =>
        /\ \A h \in saidLocal : localHeight = h
        /\ \A h \in saidNetwork : networkHeight = h

C2_Witness ==
    /\ Returned /\ iter = 1
    /\ saidLocal = {105} /\ localHeight = 105
    /\ saidNetwork = {100} /\ networkHeight = 100

\* C3: after every iteration each gauge equals the height returned by the
\* latest call for that gauge that succeeded, however many failed since.
C3_LatestSuccessWins ==
    Returned => localHeight = goodLocal /\ networkHeight = goodNetwork

\* C4: startup reaches the serving state without aborting, and every scrape
\* answered is answered 200 with both gauges.
C4_StartupServes ==
    /\ mainpc # "panicked"
    /\ scrapepc = "done" =>
         seenStatus = StatusOK /\ seenLocal # {} /\ seenNetwork # {}

\* C5: the process ends only because the listener failed to bind.
C5_ExitOnlyOnBindFailure ==
    exited => exitCause = "listen" /\ exitCode # 0

\* C6: when the credential tool fails or prints nothing, the token is empty,
\* the poller is in its loop, every request carries "Bearer " with the empty
\* token, and every iteration calls getHeight for both methods.
CredentialEmpty ==
    authRuns > 0 /\ (toolRun.fail \/ CombinedOutput(toolRun.writes) = <<>>)

C6_EmptyTokenStillPolls ==
    CredentialEmpty =>
        /\ authToken = <<>>
        /\ pollpc \in InLoop
        /\ pollpc = "waitLocal" =>
             inflight = {Request(<<>>, LocalHead, endpoint)}
        /\ pollpc = "waitNetwork" =>
             inflight = {Request(<<>>, NetworkHead, endpoint)}
        /\ pollpc \in {"update", "setNetwork", "sleep"} => calls = BothCalls
        /\ sentAuth \subseteq {Bearer(<<>>)}
        /\ (ParsesAsURL(endpoint) /\ pollpc \notin {"callLocal"}) =>
             sentAuth = {Bearer(<<>>)}

C6_Witness ==
    /\ toolRun.fail /\ authRuns = 1
    /\ iter = 2 /\ pollpc = "waitNetwork"
    /\ inflight = {Request(<<>>, NetworkHead, DefaultEndpoint)}

\* C7: a scrape can always take its next step whatever the poller is doing,
\* and each gauge value it reads is one the gauge has held.
C7_ScrapeReadsHeldValues ==
    /\ seenLocal \subseteq heldLocal
    /\ seenNetwork \subseteq heldNetwork
    /\ (mainpc = "serving" /\ ~exited) => ENABLED Scraper

C7_Witness ==
    /\ pollpc = "setNetwork" /\ iter = 2
    /\ scrapepc = "gather"
    /\ seenLocal = {105} /\ localHeight = 100
    /\ seenNetwork = {}

\* C8: between localHeight.Set and networkHeight.Set of iteration k the local
\* gauge stems from iteration k and the network gauge from iteration k-1;
\* in every other state both stem from the same iteration.
C8_PairNotTransactional ==
    /\ pollpc = "setNetwork" => stampLocal = iter /\ stampNetwork = iter - 1
    /\ pollpc # "setNetwork" => stampLocal = stampNetwork

\* a scrape that read both gauges inside the window of iteration 2
C8_Witness ==
    /\ pollpc = "setNetwork" /\ iter = 2
    /\ seenLocal = {localHeight} /\ seenStampLocal = 2
    /\ seenNetwork = {networkHeight} /\ seenStampNetwork = 1
    /\ seenLocal # seenNetwork

\* C9: the credential tool runs once, before any request is sent; every
\* request carries the token of that run, which never changes.
C9_TokenFetchedOnce ==
    /\ authRuns <= 1
    /\ pollpc \in InLoop => authRuns = 1 /\ authToken = getAuthToken(toolRun)
    /\ sentAuth # {} => authRuns = 1
    /\ sentAuth \subseteq {Bearer(getAuthToken(toolRun))}
    /\ \A req \in inflight : req.authorization = Bearer(getAuthToken(toolRun))

\* second iteration, after a failed call, with a token that is not empty
C9_Witness ==
    /\ iter = 2 /\ pollpc = "waitNetwork" /\ resLocal = "failed"
    /\ authToken # <<>> /\ authRuns = 1
    /\ \E req \in inflight : req.authorization = Bearer(authToken)

\* C10: in an iteration getHeight is called for header.LocalHead, then, once
\* that call has returned, for header.NetworkHead; at most one request is in
\* flight; the gauges are set after both calls returned, and the sleep begins
\* after both gauges were set.
C10_CallsSequential ==
    /\ Cardinality(inflight) <= 1
    /\ pollpc = "callLocal" => calls = <<>> /\ inflight = {} /\ sets = <<>>
    /\ pollpc = "waitLocal" =>
         /\ calls = <<LocalHead>> /\ sets = <<>>
         /\ inflight = {Request(authToken, LocalHead, endpoint)}
    /\ pollpc = "callNetwork" =>
         /\ calls = <<LocalHead>> /\ sets = <<>>
         /\ inflight = {} /\ resLocal # "pending"
    /\ pollpc = "waitNetwork" =>
         /\ calls = BothCalls /\ sets = <<>> /\ resLocal # "pending"
         /\ inflight = {Request(authToken, NetworkHead, endpoint)}
    /\ sets # <<>> =>
         /\ calls = BothCalls /\ inflight = {}
         /\ resLocal # "pending" /\ resNetwork # "pending"
    /\ pollpc = "update" => calls = BothCalls /\ inflight = {} /\ sets = <<>>
    /\ pollpc = "setNetwork" => sets = <<LocalName>>
    /\ pollpc = "sleep" => sets = <<LocalName, NetworkName>>

C10_Witness ==
    /\ pollpc = "sleep" /\ iter = 2
    /\ calls = BothCalls /\ sets = <<LocalName, NetworkName>>
    /\ resLocal = "ok" /\ resNetwork = "failed"

\* C11: getHeight returns 0, with a log line, when the request cannot be
\* built, client.Do fails, the status is not 200, the body cannot be read or
\* parsed, result or header is no object, height is no string or no decimal
\* integer string; in every other case it returns the integer the height text
\* denotes.  Its only result is that integer.
IsDecimalInteger(t) ==
    LET d == IF t # <<>> /\ t[1] \in {"+", "-"} THEN SubSeq(t, 2, Len(t)) ELSE t
    IN  d # <<>> /\ \A i \in 1..Len(d) : d[i] \in Digits

\* the integer a decimal integer string denotes, from its last digit up
RECURSIVE Magnitude(_)
Magnitude(d) ==
    IF d = <<>> THEN 0
    ELSE DigitVal(d[Len(d)]) + 10 * Magnitude(SubSeq(d, 1, Len(d) - 1))

Denotes(t) ==
    IF t[1] = "-" THEN 0 - Magnitude(SubSeq(t, 2, Len(t)))
    ELSE IF t[1] = "+" THEN Magnitude(SubSeq(t, 2, Len(t)))
    ELSE Magnitude(t)

CallFails(a) ==
    \/ ~ParsesAsURL(a.url)
    \/ a.reply.do # "ok"
    \/ a.reply.status # StatusOK
    \/ a.reply.read # "ok"
    \/ a.reply.json # "ok"
    \/ a.reply.result # "object"
    \/ a.reply.header # "object"
    \/ a.reply.height # "string"
    \/ ~IsDecimalInteger(a.reply.text)

C11_ZeroOnEveryFailure ==
    fnpc = "returned" =>
        /\ DOMAIN got = {"ret", "log"}
        /\ IF CallFails(arg)
           THEN got.ret = 0 /\ got.log # None
           ELSE got.ret = Denotes(arg.reply.text) /\ got.log = None

\* a body with height "100" under HTTP 500: the call fails and returns 0
C11_Witness ==
    /\ fnpc = "returned"
    /\ arg.reply.status = 500 /\ arg.reply.text = <<"1", "0", "0">>
    /\ ParsesAsURL(arg.url)
    /\ got.ret = 0

\* C12: a gauge is set in an iteration only when both calls of that
\* iteration succeeded.
C12_SetOnlyAfterSuccessfulPair ==
    sets # <<>> => resLocal = "ok" /\ resNetwork = "ok"

\* C13 as stated: with every call returning, each iteration (below the
\* bound of the model) is followed by the next, and a height a reply gave is
\* then read by its gauge.
C13_PollerNeverHalts ==
    /\ \A k \in 1..(MaxIter - 1) : (iter = k) ~> (iter = k + 1)
    /\ \A h \in {100, 105} :
         (pollpc = "update" /\ saidLocal = {h}) ~> (localHeight = h)

\* C13 (amended): the same, unless log.Fatal ends the process first.
C13_PollerHaltsOnlyOnExit ==
    /\ \A k \in 1..(MaxIter - 1) : (iter = k) ~> (iter = k + 1 \/ exited)
    /\ \A h \in {100, 105} :
         (pollpc = "update" /\ saidLocal = {h}) ~> (localHeight = h \/ exited)
    /\ \A h \in {100, 105} :
         (pollpc = "update" /\ saidNetwork = {h}) ~> (networkHeight = h \/ exited)

\* a second iteration, after one that left 0, whose reply is read
C13_Witness ==
    /\ iter = 2 /\ pollpc = "sleep" /\ ~exited
    /\ prevLocal = 0 /\ saidLocal = {105} /\ localHeight = 105

\* C14: while a call has not returned, the poller can do nothing but take
\* that call's return, the gauges keep the values they had when the call was
\* made, a scrape can always take its next step, and what a scrape reads
\* then is those values.
Stalled == pollpc \in {"waitLocal", "waitNetwork"} /\ ~exited

C14_StallLeavesServerAlone ==
    /\ [](Stalled =>
            /\ ~ENABLED (FetchToken \/ CallLocal \/ CallNetwork
                           \/ SetLocal \/ SetNetwork \/ Sleep)
            /\ pollpc = "waitLocal" => ~ENABLED ReturnNetwork
            /\ pollpc = "waitNetwork" => ~ENABLED ReturnLocal
            /\ localHeight = prevLocal /\ networkHeight = prevNetwork
            /\ mainpc = "serving" => ENABLED Scraper)
    /\ [][(Stalled /\ pollpc' = pollpc) =>
            /\ localHeight' = localHeight /\ networkHeight' = networkHeight
            /\ (seenLocal = {} /\ seenLocal' # {}) => seenLocal' = {prevLocal}
            /\ (seenNetwork = {} /\ seenNetwork' # {}) =>
                   seenNetwork' = {prevNetwork}
            /\ scrapepc' = "done" => seenStatus' = StatusOK]_vars

\* the second call of iteration 2 is out; a scrape was answered with the
\* heights of iteration 1
C14_Witness ==
    /\ pollpc = "waitNetwork" /\ iter = 2 /\ mainpc = "serving"
    /\ scrapepc = "done" /\ seenStatus = StatusOK
    /\ prevLocal = 105 /\ seenLocal = {105} /\ seenStampLocal = 1
    /\ prevNetwork = 100 /\ seenNetwork = {100} /\ seenStampNetwork = 1

\* C15: when the credential tool exits successfully, the token is what the
\* tool wrote to its standard output, trimmed; what it wrote to its standard
\* error is no part of it.
RECURSIVE Stdout(_)
Stdout(writes) ==
    IF writes = <<>> THEN <<>>
    ELSE (IF Head(writes).fd = "stdout" THEN Head(writes).data ELSE <<>>)
         \o Stdout(Tail(writes))

C15_TokenIsTrimmedStdout ==
    (authRuns = 1 /\ ~toolRun.fail) =>
        authToken = TrimSpace(Stdout(toolRun.writes))

\* C16: when updateMetrics returns, the gauge of a call that succeeded holds
\* the height that call returned, whatever the other call did.
C16_CallsIndependent ==
    Returned =>
        /\ resLocal = "ok" => localHeight = goodLocal
        /\ resNetwork = "ok" => networkHeight = goodNetwork

\* exactly one call failed; the other gauge reads its height
C16_Witness ==
    /\ Returned /\ iter = 2
    /\ resLocal = "failed" /\ localHeight = 0
    /\ resNetwork = "ok" /\ saidNetwork = {105} /\ networkHeight = 105

\* C17: getHeights' error is always nil; an iteration whose calls have
\* returned sets localHeight and then networkHeight, once each, to the two
\* values getHeight returned.
C17_ErrorBranchUnreachable ==
    /\ err = Nil
    /\ pollpc = "setNetwork" =>
         sets = <<LocalName>> /\ localHeight = Float64(local)
    /\ Returned =>
         /\ sets = <<LocalName, NetworkName>>
         /\ localHeight = Float64(local) /\ networkHeight = Float64(network)
         /\ stampLocal = iter /\ stampNetwork = iter

\* an iteration with a failed call has set both gauges
C17_Witness ==
    /\ Returned /\ iter = 2 /\ err = Nil
    /\ resLocal = "failed" /\ resNetwork = "failed"
    /\ sets = <<LocalName, NetworkName>>
    /\ prevLocal = 105 /\ localHeight = 0 /\ stampLocal = 2

\* C18: both gauges start at 0; a gauge changes only in the poller's Set of
\* that gauge, to 0 or to the height of the latest successful call of that
\* gauge's own method; no step of a scrape changes a gauge.
C18_Provenance ==
    /\ localHeight = 0 /\ networkHeight = 0
    /\ [][/\ localHeight' # localHeight =>
               /\ pollpc = "update" /\ pollpc' = "setNetwork"
               /\ localHeight' \in {0, goodLocal}
          /\ networkHeight' # networkHeight =>
               /\ pollpc = "setNetwork" /\ pollpc' = "sleep"
               /\ networkHeight' \in {0, goodNetwork}
          /\ <<scrapepc, seenLocal, seenNetwork>>' # <<scrapepc, seenLocal, seenNetwork>>
               => UNCHANGED <<localHeight, networkHeight>>]_vars

\* the gauges hold different heights, each of its own method; a scrape read them
C18_Witness ==
    /\ localHeight = 105 /\ goodLocal = 105
    /\ networkHeight = 100 /\ goodNetwork = 100
    /\ scrapepc = "done" /\ seenLocal = {105} /\ seenNetwork = {100}

====
